---- MODULE Spec2Model ----
(***************************************************************************)
(* Expense tracker (pffigueiredo/expense-tracker-nicegui).                 *)
(*                                                                         *)
(* The model covers the expense ledger (app/expense_service.py), the row   *)
(* type it stores (app/models.py) and the three user interactions of the   *)
(* page (app/expense_ui.py): rendering the index page, confirming the      *)
(* add-expense form and confirming a delete.                               *)
(*                                                                         *)
(* Representation                                                          *)
(*   Decimal amounts   integers counting cents (scale 2, exact)            *)
(*   form amounts      integers counting thousandths (a float of the       *)
(*                     number widget may carry more than two decimals)     *)
(*   str               sequences of one-character strings, " " is blank    *)
(*   date              the day number of a day in January 2024             *)
(*   datetime          the reading of the wall clock, an integer           *)
(*   Optional[T]       {} for None, {x} for a value x                      *)
(***************************************************************************)
EXTENDS Integers, Sequences, FiniteSets, TLC

VARIABLES
    engine,         \* how the database assigns identities, fixed at start
    expenses,       \* the rows of table "expenses"
    id_seq,         \* the number of rows inserted so far
    now,            \* the wall clock datetime.utcnow reads
    clock_set_back, \* history: the wall clock has been set back at least once
    result,         \* the ledger call of the last step: name, arguments, return value
    ui              \* the last user interaction: form, ledger calls, notice, page

vars == <<engine, expenses, id_seq, now, clock_set_back, result, ui>>

----------------------------------------------------------------------------
(* Bounds of the model *)

\* create_expense is called at most MaxRecords times
MaxRecords == 3

\* the wall clock reads 0..MaxClock
MaxClock == 1

----------------------------------------------------------------------------
(* Optional values *)

None == {}

Some(x) == {x}

----------------------------------------------------------------------------
(* app/models.py *)

\* class Expense(SQLModel, table=True): one row of table "expenses"
Expense(id, amount, description, expense_date, category, created_at) ==
    [id |-> id, amount |-> amount, description |-> description,
     expense_date |-> expense_date, category |-> category,
     created_at |-> created_at]

\* class ExpenseCreate(SQLModel, table=False)
ExpenseCreate(amount, description, expense_date, category) ==
    [amount |-> amount, description |-> description,
     expense_date |-> expense_date, category |-> category]

\* amount: Decimal = Field(decimal_places=2, max_digits=10)
decimal_places == 2

max_digits == 10

\* description: str = Field(max_length=500)
description_max_length == 500

\* category: str = Field(max_length=100)
category_max_length == 100

----------------------------------------------------------------------------
(* Helpers over sequences and sets *)

Range(s) == {s[i] : i \in DOMAIN s}

Ids(rows) == {r.id : r \in rows}

\* Python's sum(iterable, start): left fold of exact decimal addition
RECURSIVE SumSeq(_, _)
SumSeq(s, start) ==
    IF s = <<>> THEN start ELSE SumSeq(Tail(s), start + Head(s).amount)

----------------------------------------------------------------------------
(* The Session operations app/expense_service.py uses on table "expenses" *)

\* The database engine is configured outside these sources. Engines differ
\* in the identity an integer primary key gets on insert: a sequence hands
\* out the number after the last one it handed out (PostgreSQL SERIAL), a
\* rowid table the number after the greatest one stored (SQLite).
Engines == {"sequence", "rowid"}

RECURSIVE MaxOf(_)
MaxOf(S) ==
    IF S = {} THEN 0
    ELSE LET x == CHOOSE y \in S : TRUE
             m == MaxOf(S \ {x})
         IN  IF x > m THEN x ELSE m

\* identity the table assigns to the next inserted row
NextId(eng, rows, seq) ==
    IF eng = "sequence" THEN seq + 1 ELSE MaxOf(Ids(rows)) + 1

\* datetime.utcnow(): the current reading of the wall clock
utcnow(clock) == clock

\* session.add(expense); session.commit(); session.refresh(expense)
session_add(rows, expense) == rows \cup {expense}

\* session.get(Expense, expense_id)
session_get(rows, expense_id) == {r \in rows : r.id = expense_id}

\* session.delete(expense); session.commit()
session_delete(rows, expense) == rows \ {expense}

\* select(Expense).order_by(desc(Expense.expense_date)): every row once, no
\* row before a row of a later date; the order of rows of one date is the
\* database's choice, so the operator yields every order the query allows
select_order_by_desc(rows) ==
    {s \in [1..Cardinality(rows) -> rows] :
        /\ \A i, j \in DOMAIN s : i # j => s[i] # s[j]
        /\ \A i, j \in DOMAIN s :
              i < j => s[i].expense_date >= s[j].expense_date}

----------------------------------------------------------------------------
(* app/expense_service.py: the return value of each ledger operation *)

\* a create_expense whose model sets created_at once, when the module is
\* imported (default=datetime.utcnow() in place of default_factory)
create_expense_row_import_time(eng, rows, seq, clock, expense_data) ==
    Expense(NextId(eng, rows, seq), expense_data.amount, expense_data.description,
            expense_data.expense_date, expense_data.category, 0)

\* a create_expense that stores the amount through a binary float of too
\* little precision: the cents are lost
create_expense_row_rounded(eng, rows, seq, clock, expense_data) ==
    Expense(NextId(eng, rows, seq), (expense_data.amount \div 100) * 100,
            expense_data.description, expense_data.expense_date,
            expense_data.category, utcnow(clock))

\* create_expense: the row built from expense_data, with the identity the
\* table assigns and created_at from the model's default_factory
create_expense_row(eng, rows, seq, clock, expense_data) ==
    Expense(NextId(eng, rows, seq), expense_data.amount, expense_data.description,
            expense_data.expense_date, expense_data.category, utcnow(clock))

\* a create_expense that detects duplicates: data already stored is not
\* stored again
create_expense_rows_unique(eng, rows, seq, clock, expense_data) ==
    IF \E r \in rows :
          /\ r.amount = expense_data.amount
          /\ r.description = expense_data.description
          /\ r.expense_date = expense_data.expense_date
          /\ r.category = expense_data.category
    THEN rows
    ELSE session_add(rows, create_expense_row(eng, rows, seq, clock, expense_data))

\* create_expense: the table afterwards
create_expense_rows(eng, rows, seq, clock, expense_data) ==
    session_add(rows, create_expense_row(eng, rows, seq, clock, expense_data))

\* a get_all_expenses that orders by expense_date ascending
get_all_expenses_of_ascending(rows) ==
    {s \in [1..Cardinality(rows) -> rows] :
        /\ \A i, j \in DOMAIN s : i # j => s[i] # s[j]
        /\ \A i, j \in DOMAIN s :
              i < j => s[i].expense_date <= s[j].expense_date}

\* get_all_expenses: the possible return values over a table
get_all_expenses_of(rows) == select_order_by_desc(rows)

\* get_expense_by_id
get_expense_by_id_of(rows, expense_id) == session_get(rows, expense_id)

\* a delete_expense that reports success whether or not it found the row
delete_expense_found_always(rows, expense_id) == TRUE

\* delete_expense: the return value
delete_expense_found(rows, expense_id) == session_get(rows, expense_id) # None

\* a delete_expense whose DELETE has lost its WHERE clause
delete_expense_rows_all(rows, expense_id) ==
    IF session_get(rows, expense_id) = None THEN rows ELSE {}

\* delete_expense: the table afterwards
delete_expense_rows(rows, expense_id) ==
    LET expense == session_get(rows, expense_id)
    IN  IF expense = None THEN rows
        ELSE session_delete(rows, CHOOSE r \in expense : TRUE)

\* a get_total_expenses that adds every distinct amount once
get_total_expenses_of_distinct(all) ==
    LET amounts == {all[i].amount : i \in DOMAIN all}
        RECURSIVE Sum(_)
        Sum(S) == IF S = {} THEN 0
                  ELSE LET a == CHOOSE x \in S : TRUE IN a + Sum(S \ {a})
    IN  Sum(amounts)

\* get_total_expenses over the list get_all_expenses returned
get_total_expenses_of(all) == SumSeq(all, 0)

\* get_expenses_by_category over the list get_all_expenses returned: the
\* dict built by the loop, a function from category to total
RECURSIVE category_totals_loop(_, _)
category_totals_loop(all, category_totals) ==
    IF all = <<>> THEN category_totals
    ELSE LET expense == Head(all)
             opened == IF expense.category \notin DOMAIN category_totals
                       THEN category_totals @@ (expense.category :> 0)
                       ELSE category_totals
         IN  category_totals_loop(
                 Tail(all),
                 [opened EXCEPT ![expense.category] = @ + expense.amount])

\* a get_expenses_by_category that groups by the lower-cased category
lower(text) ==
    [i \in DOMAIN text |->
        CASE text[i] = "F" -> "f"
          [] text[i] = "T" -> "t"
          [] OTHER -> text[i]]

get_expenses_by_category_of_lower(all) ==
    category_totals_loop(
        [i \in DOMAIN all |-> [all[i] EXCEPT !.category = lower(@)]], <<>>)

\* a get_expenses_by_category whose loop assigns ("=") where the code adds
\* ("+="): each category keeps the amount of its last row only
RECURSIVE category_last_loop(_, _)
category_last_loop(all, category_totals) ==
    IF all = <<>> THEN category_totals
    ELSE LET expense == Head(all)
             opened == IF expense.category \notin DOMAIN category_totals
                       THEN category_totals @@ (expense.category :> 0)
                       ELSE category_totals
         IN  category_last_loop(
                 Tail(all),
                 [opened EXCEPT ![expense.category] = expense.amount])

get_expenses_by_category_of_last(all) == category_last_loop(all, <<>>)

get_expenses_by_category_of(all) == category_totals_loop(all, <<>>)

----------------------------------------------------------------------------
(* app/expense_ui.py: the conversions save_expense applies to the form *)

Blank == " "

\* str.strip(): leading and trailing blanks removed
RECURSIVE lstrip(_)
lstrip(s) ==
    IF s # <<>> /\ Head(s) = Blank THEN lstrip(Tail(s)) ELSE s

RECURSIVE rstrip(_)
rstrip(s) ==
    IF s # <<>> /\ s[Len(s)] = Blank THEN rstrip(SubSeq(s, 1, Len(s) - 1))
    ELSE s

strip(s) == rstrip(lstrip(s))

\* "not value or not value.strip()" of an input widget's value
blank_text(value) ==
    \/ value = None
    \/ \E text \in value : text = <<>> \/ strip(text) = <<>>

\* "not amount_input.value or amount_input.value <= 0"
invalid_amount(value) ==
    \/ value = None
    \/ \E thousandths \in value : thousandths = 0 \/ thousandths <= 0

\* datetime.fromisoformat(text).date(): the day, or None where it raises
fromisoformat(text) ==
    CASE text = "2024-01-01" -> Some(1)
      [] text = "2024-01-02" -> Some(2)
      [] text = "2024-01-03" -> Some(3)
      [] OTHER -> None

\* the date save_expense passes on: a str is parsed, anything else is kept
parse_date(value) ==
    IF value.type = "str" THEN fromisoformat(value.text)
    ELSE IF value.type = "date" THEN Some(value.day)
    ELSE None

\* number of decimal places of Decimal(str(v)) for a float v of the number
\* widget, v given in thousandths: str of a float shows at least one place
decimal_places_of(thousandths) ==
    IF thousandths % 10 # 0 THEN 3
    ELSE IF thousandths % 100 # 0 THEN 2
    ELSE 1

RECURSIVE num_digits(_)
num_digits(n) == IF n < 10 THEN 1 ELSE 1 + num_digits(n \div 10)

\* number of digits before the decimal point
whole_digits_of(thousandths) ==
    IF thousandths < 1000 THEN 0 ELSE num_digits(thousandths \div 1000)

\* the validation ExpenseCreate(...) runs on construction (table=False):
\* TRUE where it accepts the values save_expense passes
ExpenseCreate_accepts(thousandths, description, expense_date, category) ==
    /\ decimal_places_of(thousandths) <= decimal_places
    /\ whole_digits_of(thousandths) + decimal_places_of(thousandths)
          <= max_digits
    /\ whole_digits_of(thousandths) <= max_digits - decimal_places
    /\ Len(description) <= description_max_length
    /\ expense_date # None
    /\ Len(category) <= category_max_length

\* Decimal(str(v)) in cents, for a value with at most two decimal places
cents_of(thousandths) == thousandths \div 10

\* save_expense up to the call of create_expense: the notice it ends with,
\* or "" where it goes on to call create_expense
save_expense_notice(form) ==
    IF invalid_amount(form.amount) THEN "Please enter a valid amount"
    ELSE IF blank_text(form.description) THEN "Please enter a description"
    ELSE IF blank_text(form.category) THEN "Please select a category"
    ELSE LET thousandths == CHOOSE t \in form.amount : TRUE
             description == CHOOSE t \in form.description : TRUE
             category == CHOOSE t \in form.category : TRUE
         IN  IF ExpenseCreate_accepts(thousandths, strip(description),
                                      parse_date(form.date), strip(category))
             THEN ""
             ELSE "Error adding expense"

\* a save_expense that passes the texts on as typed
save_expense_data_untrimmed(form) ==
    ExpenseCreate(cents_of(CHOOSE t \in form.amount : TRUE),
                  CHOOSE t \in form.description : TRUE,
                  CHOOSE d \in parse_date(form.date) : TRUE,
                  CHOOSE t \in form.category : TRUE)

\* the ExpenseCreate save_expense builds from a form it accepts
save_expense_data(form) ==
    ExpenseCreate(cents_of(CHOOSE t \in form.amount : TRUE),
                  strip(CHOOSE t \in form.description : TRUE),
                  CHOOSE d \in parse_date(form.date) : TRUE,
                  strip(CHOOSE t \in form.category : TRUE))

\* max(categories.items(), key=lambda x: x[1]): the first item of greatest
\* total in the dict's order, which is the order of first appearance in all
first_index(all, category) ==
    CHOOSE i \in DOMAIN all :
        /\ all[i].category = category
        /\ \A j \in 1..(i - 1) : all[j].category # category

top_category_of(all) ==
    LET categories == get_expenses_by_category_of(all)
    IN  IF DOMAIN categories = {} THEN <<<<"N", "o", "n", "e">>, 0>>
        ELSE LET top == CHOOSE c \in DOMAIN categories :
                            \A d \in DOMAIN categories \ {c} :
                                \/ categories[c] > categories[d]
                                \/ /\ categories[c] = categories[d]
                                   /\ first_index(all, c) < first_index(all, d)
             IN  <<top, categories[top]>>

----------------------------------------------------------------------------
(* Inputs *)

\* the ExpenseCreate values the ledger is called with: 15.50, 25.00 and 8.75
\* (the amounts of the total test), 0.01 and 9999.99 (the extremes of the
\* round-trip test); dates with and without ties; categories "F", "T" and
\* "f", which differs from "F" in case only
ExpenseCreates ==
    { ExpenseCreate(1550,   <<"L">>, 2, <<"F">>),
      ExpenseCreate(2500,   <<"L">>, 3, <<"F">>),
      ExpenseCreate(875,    <<"B">>, 1, <<"T">>),
      ExpenseCreate(1,      <<"L">>, 2, <<"f">>),
      ExpenseCreate(999999, <<"B">>, 1, <<"F">>),
      ExpenseCreate(1550,   <<"B">>, 3, <<"T">>) }

\* the inputs of the runs in which the wall clock moves
TimedExpenseCreates ==
    { ExpenseCreate(1550, <<"L">>, 2, <<"F">>),
      ExpenseCreate(875,  <<"B">>, 1, <<"T">>) }

\* the identities the ledger is asked about: every identity the table can
\* issue within the bounds, and one more that it never issues
AskedIds == 1..(MaxRecords + 1)

\* the values of the form's widgets: amounts in thousandths (None, 0,
\* -0.01, 0.001, 15.5), descriptions ("", " ", " L ", 501 characters),
\* categories (None, " ", " f"), dates (an ISO string, a string that is no
\* date, the date object of the same day)
AmountValues == {None, Some(0), Some(0 - 10), Some(1), Some(15500)}

DescriptionValues ==
    {Some(<<>>), Some(<<Blank>>), Some(<<Blank, "L", Blank>>),
     Some([i \in 1..(description_max_length + 1) |-> "x"])}

CategoryValues == {None, Some(<<Blank>>), Some(<<Blank, "f">>)}

DateValue(type, text, day) == [type |-> type, text |-> text, day |-> day]

DateValues ==
    {DateValue("str", "2024-01-01", 0), DateValue("str", "01/02/2024", 0),
     DateValue("date", "", 1)}

Forms ==
    [amount : AmountValues, description : DescriptionValues,
     category : CategoryValues, date : DateValues]

----------------------------------------------------------------------------
(* State *)

\* the record of a ledger call: op names the operation, expense_data and
\* expense_id are its arguments, and the return value is in the field of its
\* type: expense (create_expense, get_expense_by_id), expenses
\* (get_all_expenses), deleted (delete_expense), total (get_total_expenses),
\* category_totals (get_expenses_by_category)
Result(op) ==
    [op |-> op, expense_data |-> None, expense_id |-> 0, expense |-> None,
     expenses |-> <<>>, deleted |-> FALSE, total |-> 0,
     category_totals |-> <<>>]

NoResult == Result("none")

Idle == [handler |-> "none", form |-> None, expense_id |-> None,
         calls |-> <<>>, notice |-> "", reload |-> FALSE, page |-> None]

Init ==
    /\ engine \in Engines
    /\ expenses = {}
    /\ id_seq = 0
    /\ now = 0
    /\ clock_set_back = FALSE
    /\ result = NoResult
    /\ ui = Idle

----------------------------------------------------------------------------
(* The wall clock *)

\* time passes
Tick ==
    /\ now < MaxClock
    /\ now' = now + 1
    /\ UNCHANGED <<engine, expenses, id_seq, clock_set_back, result, ui>>

\* the system clock is set back (an administrator, a clock synchronisation)
ClockSetBack ==
    /\ \E t \in 0..(now - 1) : now' = t
    /\ clock_set_back' = TRUE
    /\ UNCHANGED <<engine, expenses, id_seq, result, ui>>

----------------------------------------------------------------------------
(* app/expense_service.py: one ledger call, on the table and the result *)

CreateExpense(expense_data) ==
    LET expense == create_expense_row(engine, expenses, id_seq, now,
                                      expense_data)
    IN  /\ id_seq < MaxRecords
        /\ expenses' = create_expense_rows(engine, expenses, id_seq, now,
                                           expense_data)
        /\ id_seq' = id_seq + 1
        /\ result' = [Result("create_expense") EXCEPT
                         !.expense_data = Some(expense_data),
                         !.expense = Some(expense)]

GetAllExpenses ==
    /\ \E all \in get_all_expenses_of(expenses) :
          result' = [Result("get_all_expenses") EXCEPT !.expenses = all]
    /\ UNCHANGED <<expenses, id_seq>>

GetExpenseById(expense_id) ==
    /\ result' = [Result("get_expense_by_id") EXCEPT
                     !.expense_id = expense_id,
                     !.expense = get_expense_by_id_of(expenses, expense_id)]
    /\ UNCHANGED <<expenses, id_seq>>

DeleteExpense(expense_id) ==
    /\ expenses' = delete_expense_rows(expenses, expense_id)
    /\ result' = [Result("delete_expense") EXCEPT
                     !.expense_id = expense_id,
                     !.deleted = delete_expense_found(expenses, expense_id)]
    /\ UNCHANGED id_seq

GetTotalExpenses ==
    /\ \E all \in get_all_expenses_of(expenses) :
          result' = [Result("get_total_expenses") EXCEPT
                        !.total = get_total_expenses_of(all)]
    /\ UNCHANGED <<expenses, id_seq>>

GetExpensesByCategory ==
    /\ \E all \in get_all_expenses_of(expenses) :
          result' = [Result("get_expenses_by_category") EXCEPT
                        !.category_totals = get_expenses_by_category_of(all)]
    /\ UNCHANGED <<expenses, id_seq>>

----------------------------------------------------------------------------
(* The ledger called directly, as tests/test_expense_service.py calls it *)

create_expense ==
    /\ \E expense_data \in ExpenseCreates : CreateExpense(expense_data)
    /\ UNCHANGED <<engine, now, clock_set_back, ui>>

get_all_expenses ==
    /\ GetAllExpenses
    /\ UNCHANGED <<engine, now, clock_set_back, ui>>

get_expense_by_id ==
    /\ \E expense_id \in AskedIds : GetExpenseById(expense_id)
    /\ UNCHANGED <<engine, now, clock_set_back, ui>>

delete_expense ==
    /\ \E expense_id \in AskedIds : DeleteExpense(expense_id)
    /\ UNCHANGED <<engine, now, clock_set_back, ui>>

get_total_expenses ==
    /\ GetTotalExpenses
    /\ UNCHANGED <<engine, now, clock_set_back, ui>>

get_expenses_by_category ==
    /\ GetExpensesByCategory
    /\ UNCHANGED <<engine, now, clock_set_back, ui>>

\* the ledger over the full set of inputs, the wall clock standing still
Next ==
    \/ create_expense
    \/ get_all_expenses
    \/ get_expense_by_id
    \/ delete_expense
    \/ get_total_expenses
    \/ get_expenses_by_category

Spec == Init /\ [][Next]_vars

\* the ledger while the wall clock moves, over the inputs TimedExpenseCreates
create_expense_timed ==
    /\ \E expense_data \in TimedExpenseCreates : CreateExpense(expense_data)
    /\ UNCHANGED <<engine, now, clock_set_back, ui>>

NextClock ==
    \/ Tick
    \/ ClockSetBack
    \/ create_expense_timed
    \/ delete_expense

SpecClock == Init /\ [][NextClock]_vars

----------------------------------------------------------------------------
(* app/expense_ui.py: the user interactions *)

Interaction(handler, form, expense_id, calls, notice, reload, page) ==
    [handler |-> handler, form |-> form, expense_id |-> expense_id,
     calls |-> calls, notice |-> notice, reload |-> reload, page |-> page]

\* index: create_summary_section calls get_total_expenses and
\* get_expenses_by_category, create_expenses_table calls get_all_expenses
index ==
    /\ \E total \in {get_total_expenses_of(all) :
                        all \in get_all_expenses_of(expenses)},
          top_category \in {top_category_of(all) :
                               all \in get_all_expenses_of(expenses)},
          all \in get_all_expenses_of(expenses) :
          /\ result' = [Result("get_all_expenses") EXCEPT !.expenses = all]
          /\ ui' = Interaction("index", None, None,
                     <<"get_total_expenses", "get_expenses_by_category",
                       "get_all_expenses">>,
                     "", FALSE,
                     Some([total |-> total,
                           top_category |-> top_category,
                           rows |-> [i \in DOMAIN all |-> all[i].id]]))
    /\ UNCHANGED <<engine, expenses, id_seq, now, clock_set_back>>

\* save_expense: the "Add Expense" button of the dialog
save_expense ==
    /\ \E form \in Forms :
          IF save_expense_notice(form) # ""
          THEN /\ ui' = Interaction("save_expense", Some(form), None, <<>>,
                                    save_expense_notice(form), FALSE, None)
               /\ result' = NoResult
               /\ UNCHANGED <<expenses, id_seq>>
          ELSE /\ CreateExpense(save_expense_data(form))
               /\ ui' = Interaction("save_expense", Some(form), None,
                                    <<"create_expense">>,
                                    "Expense added successfully!", TRUE, None)
    /\ UNCHANGED <<engine, now, clock_set_back>>

\* a perform_delete that fetches the list again after deleting
perform_delete_then_list ==
    /\ \E expense_id \in AskedIds :
          /\ expenses' = delete_expense_rows(expenses, expense_id)
          /\ \E all \in get_all_expenses_of(expenses') :
                result' = [Result("get_all_expenses") EXCEPT
                              !.expenses = all]
          /\ ui' = Interaction("perform_delete", None, Some(expense_id),
                               <<"delete_expense", "get_all_expenses">>,
                               "", FALSE, None)
    /\ UNCHANGED <<engine, id_seq, now, clock_set_back>>

\* perform_delete: the "Delete" button of the confirmation dialog
perform_delete ==
    /\ \E expense_id \in AskedIds :
          /\ DeleteExpense(expense_id)
          /\ ui' = IF delete_expense_found(expenses, expense_id)
                   THEN Interaction("perform_delete", None,
                                    Some(expense_id), <<"delete_expense">>,
                                    "Expense deleted successfully!", TRUE,
                                    None)
                   ELSE Interaction("perform_delete", None,
                                    Some(expense_id), <<"delete_expense">>,
                                    "Expense not found", FALSE, None)
    /\ UNCHANGED <<engine, now, clock_set_back>>

NextUI ==
    \/ index
    \/ save_expense
    \/ perform_delete

SpecUI == Init /\ [][NextUI]_vars

----------------------------------------------------------------------------
(* Properties of the ledger *)

\* the sum of amount over a set of rows, in cents
RECURSIVE SumAmount(_)
SumAmount(rows) ==
    IF rows = {} THEN 0
    ELSE LET r == CHOOSE x \in rows : TRUE
         IN  r.amount + SumAmount(rows \ {r})

\* a step in which the ledger was called: the call's record changed
Called(op) == result'.op = op /\ result' # result

\* all lists every row of rows exactly once, no row before a row of a later
\* expense_date
IsListingOf(all, rows) ==
    /\ Len(all) = Cardinality(rows)
    /\ Range(all) = rows
    /\ \A i \in 1..(Len(all) - 1) :
          all[i].expense_date >= all[i + 1].expense_date

\* a create_expense step adds exactly the record it returns, a read leaves
\* the table alone
CreatedAreStored ==
    /\ Called("create_expense") =>
          /\ result'.expense # None
          /\ \A e \in result'.expense :
                e \notin expenses /\ expenses' = expenses \cup {e}
    /\ (result'.op \notin {"create_expense", "delete_expense"}) =>
          expenses' = expenses

\* C1: get_all_expenses returns exactly the stored records, which after any
\* sequence of create calls are exactly the created records, each once, and
\* every element's expense_date is >= that of the element after it; over an
\* empty table it returns the empty sequence
C1_ListAllCreatedByDateDesc ==
    /\ [](result.op = "get_all_expenses" =>
            /\ IsListingOf(result.expenses, expenses)
            /\ (expenses = {} => result.expenses = <<>>))
    /\ [][CreatedAreStored]_vars

\* three records created in an order other than that of their dates, none
\* deleted, listed newest first
C1_Witness ==
    /\ result.op = "get_all_expenses"
    /\ Len(result.expenses) = 3
    /\ id_seq = 3
    /\ result.expenses[1].expense_date > result.expenses[2].expense_date
    /\ result.expenses[2].expense_date > result.expenses[3].expense_date
    /\ result.expenses[1].id > result.expenses[3].id

\* C2: get_total_expenses returns exactly the sum of amount, in cents, over
\* the records currently stored, and zero over an empty table
C2_TotalIsSumOfStored ==
    result.op = "get_total_expenses" =>
        /\ result.total = SumAmount(expenses)
        /\ (expenses = {} => result.total = 0)

\* the total of 15.50, 25.00 and 8.75 is exactly 49.25
C2_Witness ==
    /\ result.op = "get_total_expenses"
    /\ {r.amount : r \in expenses} = {1550, 2500, 875}
    /\ Cardinality(expenses) = 3
    /\ result.total = 4925

\* C3: get_expenses_by_category returns a mapping whose keys are exactly the
\* distinct category strings of the stored records, compared as they are,
\* and whose value for a key is the sum of amount over the stored records of
\* that category; it is empty over an empty table
C3_TotalsByExactCategory ==
    result.op = "get_expenses_by_category" =>
        /\ DOMAIN result.category_totals = {r.category : r \in expenses}
        /\ \A c \in DOMAIN result.category_totals :
              result.category_totals[c] =
                  SumAmount({r \in expenses : r.category = c})
        /\ (expenses = {} => DOMAIN result.category_totals = {})

\* two records of category "F" and one of category "f": two groups
C3_Witness ==
    /\ result.op = "get_expenses_by_category"
    /\ DOMAIN result.category_totals = {<<"F">>, <<"f">>}
    /\ Cardinality({r \in expenses : r.category = <<"F">>}) = 2
    /\ result.category_totals[<<"F">>] = 4050
    /\ result.category_totals[<<"f">>] = 1

\* what a delete_expense step on a stored id does
C4_Step ==
    /\ (Called("delete_expense") /\ result'.expense_id \in Ids(expenses)) =>
          result'.deleted = TRUE
    /\ (Called("delete_expense") /\ result'.deleted = TRUE) =>
          /\ result'.expense_id \in Ids(expenses)
          /\ get_expense_by_id_of(expenses', result'.expense_id) = None
          /\ \A all \in get_all_expenses_of(expenses') :
                \A i \in DOMAIN all : all[i].id # result'.expense_id
          /\ \A r \in expenses :
                r.id # result'.expense_id => r \in expenses'
          /\ \A r \in expenses' : r \in expenses

\* C4: delete_expense(id) on a stored id returns true and removes exactly
\* that record: afterwards get_expense_by_id(id) returns None, no list
\* get_all_expenses can return holds a record of that id, and every other
\* stored record is still stored with all of its fields unchanged
C4_DeleteRemovesExactlyOne == [][C4_Step]_vars

\* a delete that returned true and left two other records, created at
\* different times, in the table
C4_Witness ==
    /\ result.op = "delete_expense"
    /\ result.deleted = TRUE
    /\ result.expense_id \notin Ids(expenses)
    /\ Cardinality(expenses) = 2
    /\ \E r, q \in expenses : r.created_at # q.created_at

\* what a delete_expense step on an id not stored does
C5_Step ==
    /\ (Called("delete_expense") /\ result'.expense_id \notin Ids(expenses))
          => /\ result'.deleted = FALSE
             /\ expenses' = expenses
             /\ id_seq' = id_seq
    /\ (/\ result.op = "delete_expense"
        /\ result.deleted = TRUE
        /\ result'.op = "delete_expense"
        /\ result'.expense_id = result.expense_id) =>
          result'.deleted = FALSE

\* C5: delete_expense(id) on an id that is not stored returns false and
\* leaves the table unchanged; a delete_expense(x) that directly follows a
\* delete_expense(x) that returned true returns false
C5_DeleteAbsentIsFalse == [][C5_Step]_vars

\* a delete that returned false for an identity that was issued and has
\* been deleted, other records being stored
C5_Witness ==
    /\ engine = "sequence"
    /\ result.op = "delete_expense"
    /\ result.deleted = FALSE
    /\ result.expense_id <= id_seq
    /\ result.expense_id \notin Ids(expenses)
    /\ expenses # {}

\* C6: get_expense_by_id(id) returns the stored record of that id, or None
\* where there is none, as for every id never issued; the record
\* create_expense has just returned is retrievable by its id with amount,
\* description, expense_date and category equal to the values passed
C6_GetByIdRoundTrip ==
    /\ result.op = "get_expense_by_id" =>
          /\ result.expense = {r \in expenses : r.id = result.expense_id}
          /\ Cardinality(result.expense) <= 1
          /\ (result.expense_id > id_seq => result.expense = None)
    /\ result.op = "create_expense" =>
          /\ result.expense # None
          /\ \A e \in result.expense, data \in result.expense_data :
                LET got == get_expense_by_id_of(expenses, e.id)
                IN  /\ got # None
                    /\ \A r \in got :
                          /\ r.id = e.id
                          /\ r.amount = data.amount
                          /\ r.description = data.description
                          /\ r.expense_date = data.expense_date
                          /\ r.category = data.category

\* the record of amount 9999.99 fetched by its id while one of amount 0.01
\* is stored too
C6_Witness ==
    /\ result.op = "get_expense_by_id"
    /\ \E r \in result.expense : r.amount = 999999
    /\ \E r \in expenses : r.amount = 1

\* what a step does to the stored records and their identities
C7_Step ==
    /\ Called("create_expense") =>
          /\ result'.expense # None
          /\ \A e \in result'.expense :
                /\ e.id >= 1
                /\ e.id \notin Ids(expenses)
                /\ e \in expenses'
          /\ expenses \subseteq expenses'
    /\ \A r \in expenses :
          \/ r \in expenses'
          \/ /\ Called("delete_expense")
             /\ result'.expense_id = r.id
             /\ r.id \notin Ids(expenses')

\* C7: create_expense detects no duplicates and always assigns a fresh
\* identity: the record it returns carries an identity that no stored
\* record carries, and it is stored beside every record stored before, also
\* when its data equals theirs; no two stored records share an identity,
\* and a record stays stored under its identity, unchanged, until
\* delete_expense is called with it
C7_FreshStableIds ==
    /\ [](\A r, q \in expenses : r.id = q.id => r = q)
    /\ [][C7_Step]_vars

\* two stored records created from identical data, under different ids,
\* the later one created after a delete
C7_Witness ==
    /\ result.op = "create_expense"
    /\ Cardinality(expenses) = 2
    /\ id_seq = 3
    /\ \E r, q \in expenses :
          /\ r.id # q.id
          /\ r.amount = q.amount
          /\ r.description = q.description
          /\ r.expense_date = q.expense_date
          /\ r.category = q.category

----------------------------------------------------------------------------
(* Properties of created_at *)

\* created_at does not decrease with insertion order
CreatedAtMonotone ==
    \A r, q \in expenses : r.id < q.id => r.created_at <= q.created_at

\* created_at is the reading of the wall clock when the record is created,
\* and no step changes the created_at of a stored record
CreatedAtStep ==
    /\ Called("create_expense") =>
          \A e \in result'.expense : e.created_at = now
    /\ \A r \in expenses' :
          \/ r \in expenses
          \/ Called("create_expense") /\ r \in result'.expense

\* C8 as claimed: created_at is assigned at creation time, is monotonically
\* non-decreasing with insertion order, and is never modified
C8_AsClaimed == [](CreatedAtMonotone) /\ [][CreatedAtStep]_vars

\* C8 amended: created_at is the wall clock's reading at creation time and
\* is never modified; it is non-decreasing with insertion order as long as
\* the wall clock has not been set back
C8_CreatedAtFromWallClock ==
    /\ [](~clock_set_back => CreatedAtMonotone)
    /\ [][CreatedAtStep]_vars

\* two records created at different readings of a clock never set back
C8_Witness ==
    /\ ~clock_set_back
    /\ \E r, q \in expenses : r.id < q.id /\ r.created_at < q.created_at

----------------------------------------------------------------------------
(* Properties of the user interactions *)

\* the ledger operations that change the table
MutatingCalls == {"create_expense", "delete_expense"}

\* C9 as claimed: each user interaction performs at most one ledger
\* operation
C9_AsClaimed == Len(ui.calls) <= 1

\* C9 amended: confirming the add-expense form performs at most one ledger
\* operation (create_expense) and confirming a delete exactly one
\* (delete_expense); rendering the index page performs three, all of them
\* reads, in this order: get_total_expenses, get_expenses_by_category,
\* get_all_expenses; no interaction performs more than one operation that
\* changes the table
C9_OneMutationPerInteraction ==
    /\ ui.handler = "index" =>
          ui.calls = <<"get_total_expenses", "get_expenses_by_category",
                       "get_all_expenses">>
    /\ ui.handler = "save_expense" =>
          ui.calls \in {<<>>, <<"create_expense">>}
    /\ ui.handler = "perform_delete" => ui.calls = <<"delete_expense">>
    /\ Cardinality({i \in DOMAIN ui.calls : ui.calls[i] \in MutatingCalls})
          <= 1

\* the index page rendered over a table that holds records
C9_Witness ==
    /\ ui.handler = "index"
    /\ Len(ui.calls) = 3
    /\ expenses # {}
    /\ \E page \in ui.page : Len(page.rows) = Cardinality(expenses)

\* the value of a text widget holds a character that is not a blank
NonBlank(value) ==
    \E text \in value : \E i \in DOMAIN text : text[i] # Blank

\* the amount widget holds a number greater than zero
PositiveAmount(value) == \E thousandths \in value : thousandths > 0

\* stored is the widget's text without its leading and trailing blanks
IsTrimOf(stored, value) ==
    \E text \in value :
        \E i, j \in DOMAIN text :
            /\ stored = SubSeq(text, i, j)
            /\ stored # <<>>
            /\ stored[1] # Blank
            /\ stored[Len(stored)] # Blank
            /\ \A k \in DOMAIN text : (k < i \/ k > j) => text[k] = Blank

\* the form passes the three checks of save_expense
FormPassesChecks(form) ==
    /\ PositiveAmount(form.amount)
    /\ NonBlank(form.description)
    /\ NonBlank(form.category)

\* the outcome of save_expense against the form it was given
C10_State ==
    ui.handler = "save_expense" =>
        \A form \in ui.form :
            /\ ui.calls # <<>> =>
                  /\ FormPassesChecks(form)
                  /\ ui.calls = <<"create_expense">>
                  /\ result.op = "create_expense"
                  /\ result.expense # None
                  /\ \A e \in result.expense :
                        /\ e \in expenses
                        /\ IsTrimOf(e.description, form.description)
                        /\ IsTrimOf(e.category, form.category)
            /\ ~FormPassesChecks(form) => ui.calls = <<>>
            /\ ui.calls = <<>> =>
                  /\ ui.notice \notin {"", "Expense added successfully!"}
                  /\ ~ui.reload

\* a save_expense that calls nothing changes nothing
C10_Step ==
    (ui'.handler = "save_expense" /\ ui'.calls = <<>>) =>
        /\ expenses' = expenses
        /\ id_seq' = id_seq

\* C10: save_expense calls create_expense only when the amount is present
\* and greater than zero and the description and the category are not empty
\* after trimming; on a validation failure it reports a notice, does not
\* call create_expense and leaves the table unchanged; on success the
\* stored description and category are the trimmed values
C10_SaveValidatesFirst == [](C10_State) /\ [][C10_Step]_vars

\* a form whose texts carry blanks, saved: the record stored holds the
\* trimmed texts
C10_Witness ==
    /\ ui.handler = "save_expense"
    /\ ui.calls = <<"create_expense">>
    /\ \E form \in ui.form, e \in result.expense :
          /\ Some(e.description) # form.description
          /\ Some(e.category) # form.category
          /\ e \in expenses

----------------------------------------------------------------------------
(* The two aggregations against each other *)

\* the sum of the values of a mapping from category to total
RECURSIVE SumValues(_)
SumValues(category_totals) ==
    IF DOMAIN category_totals = {} THEN 0
    ELSE LET c == CHOOSE x \in DOMAIN category_totals : TRUE
             rest == [x \in DOMAIN category_totals \ {c} |->
                         category_totals[x]]
         IN  category_totals[c] + SumValues(rest)

\* the four operations that only read
ReadCalls ==
    {"get_all_expenses", "get_expense_by_id", "get_total_expenses",
     "get_expenses_by_category"}

\* the table is as the aggregation of the last call found it: the other
\* aggregation, called now, returns a value that agrees with the last one
C11_State ==
    /\ result.op = "get_expenses_by_category" =>
          \A all \in get_all_expenses_of(expenses) :
              get_total_expenses_of(all) = SumValues(result.category_totals)
    /\ result.op = "get_total_expenses" =>
          \A all \in get_all_expenses_of(expenses) :
              SumValues(get_expenses_by_category_of(all)) = result.total

\* one aggregation called right after the other agrees with it, and a call
\* of a reading operation leaves the table and its identity counter alone
C11_Step ==
    /\ (result.op = "get_expenses_by_category"
          /\ Called("get_total_expenses")) =>
          result'.total = SumValues(result.category_totals)
    /\ (result.op = "get_total_expenses"
          /\ Called("get_expenses_by_category")) =>
          SumValues(result'.category_totals) = result.total
    /\ (\E op \in ReadCalls : Called(op)) =>
          /\ expenses' = expenses
          /\ id_seq' = id_seq

\* C11: while no mutating operation intervenes, the two aggregations agree:
\* the sum of all values of the mapping get_expenses_by_category returns
\* equals the value get_total_expenses returns; and none of
\* get_total_expenses, get_expenses_by_category, get_all_expenses and
\* get_expense_by_id changes the table
C11_AggregationsAgree == [](C11_State) /\ [][C11_Step]_vars

\* get_expenses_by_category has returned a mapping of two categories over
\* three stored rows, two of them of one category, and its values add up to
\* the total of the table
C11_Witness ==
    /\ result.op = "get_expenses_by_category"
    /\ Cardinality(expenses) = 3
    /\ Cardinality(DOMAIN result.category_totals) = 2
    /\ SumValues(result.category_totals) > 0
    /\ \E all \in get_all_expenses_of(expenses) :
          get_total_expenses_of(all) = SumValues(result.category_totals)

====
